---------------------------- MODULE Spec2Model ----------------------------
(***************************************************************************)
(* A model of the review service of src/main.py: the three Flask handlers  *)
(* save_review, get_reviews and search_reviews, the MongoDB collection     *)
(* they share, the process-wide cachetools.TTLCache of summaries and the   *)
(* external Summarizer (gerar_resumo).                                     *)
(*                                                                         *)
(* Flask serves requests concurrently, one thread per request.  A handler  *)
(* that only talks to the collection is one step.  get_reviews is split at *)
(* the places where another request can run in between: after the fetch of *)
(* the reviews (line 145), after the cache lookup (line 157), while the    *)
(* Summarizer call is outstanding (line 160) and after the cache write and *)
(* the response (lines 161-167).  Each call of a TTLCache method is one    *)
(* step.                                                                   *)
(*                                                                         *)
(* Texts (avaliacao, palavra) are sequences of one-character strings, so   *)
(* that lower-casing and substring search are computed; identifiers and    *)
(* names are strings, with "" standing for an empty or missing argument    *)
(* (both are falsy in Python).                                             *)
(***************************************************************************)
EXTENDS Integers, Sequences, FiniteSets, TLC

(***************************************************************************)
(* Program constants, scaled down so that a full cache, an expired entry   *)
(* and a cut excerpt are reached, and the bounds of the model.             *)
(***************************************************************************)
\* cachetools.TTLCache(maxsize=100, ...) at src/main.py:39
maxsize == 1
\* cachetools.TTLCache(..., ttl=3600) at src/main.py:39, in ticks of the timer
ttl == 2
\* reviews[:20] at src/main.py:42
EXCERPT == 1
\* The requests served in a run.
MaxRequests == 4
\* The timer stops here: an entry written at 0 is seen live and expired.
MaxTime == ttl

Threads == {"t1", "t2"}

\* Product identifiers a request may carry; "" is the empty or missing one.
ProductIds == {"A", "B"}
ArgIds == ProductIds \cup {""}

\* Python's None, where it has to be told from a string.
None == "<None>"

\* What the Summarizer may answer (response.text): any string, also the
\* empty one.
Summaries == {"", "s1", "s2"}

\* nota of a request body, any JSON value: an integer v ("int"), the number
\* v + 0.5 ("float"), or absent ("none": data.get gives None).
Nota(kind, v) == [kind |-> kind, v |-> v]
NoNota == Nota("none", 0)

\* The number a nota is, in halves.
Halves(n) == IF n.kind = "float" THEN 2 * n.v + 1 ELSE 2 * n.v

\* Request bodies of save_review.
Body(p, u, n, a) == [produto_id |-> p, nome_usuario |-> u, nota |-> n, avaliacao |-> a]
SaveBodies ==
    { Body("A", "ana", Nota("int", 5), <<"O", "k">>),
      Body("A", "bia", Nota("int", 2), <<"o", "K", "!">>),
      Body("B", "ana", Nota("float", 4), <<"N", "o">>),
      Body("",  "ana", Nota("int", 5), <<"O", "k">>),
      Body("A", "",    Nota("int", 5), <<"O", "k">>),
      Body("A", "ana", Nota("int", 0), <<"O", "k">>),
      Body("A", "ana", Nota("int", 6), <<"O", "k">>),
      Body("A", "ana", Nota("float", 5), <<"O", "k">>),
      Body("A", "ana", Nota("int", 5), <<>>),
      Body("A", "ana", NoNota,         <<"O", "k">>),
      Body("",  "ana", NoNota,         <<"O", "k">>) }

\* Search terms of search_reviews: absent, and two that are in the texts above
\* in another letter case only.
Palavras == { <<>>, <<"O", "K">>, <<"k", "!">> }

VARIABLES
    connected,   \* collection is not None (src/main.py:30-37)
    docs,        \* the documents of the collection, in insertion order
    cache,       \* the TTLCache: its entries, least recently used first
    cache_maxsize, \* the TTLCache's maxsize
    now,         \* the cache's timer
    pc,          \* per thread: where its request stands
    produto_id,  \* per thread: get_reviews' produto_id
    reviews,     \* per thread: get_reviews' reviews
    resumo,      \* per thread: get_reviews' resumo_avaliacao
    resp,        \* the response sent by the last step, if it sent one
    served,      \* the requests taken so far
    workers,     \* the threads that serve requests
    obs,         \* per thread, history: what its get_reviews has done
    last,        \* per product, history: its latest get_reviews (sequential runs)
    used         \* per product, history: the requests that last used and last
                 \* wrote its cache entry (sequential runs)

vars == <<connected, docs, cache, cache_maxsize, now, pc, produto_id, reviews, resumo,
          resp, served, workers, obs, last, used>>

(***************************************************************************)
(* Sequences and Python values.                                            *)
(***************************************************************************)
Min(a, b) == IF a < b THEN a ELSE b

\* s[:n] of Python.
Take(s, n) == SubSeq(s, 1, Min(n, Len(s)))

RECURSIVE Sum(_)
Sum(s) == IF s = <<>> THEN 0 ELSE Head(s) + Sum(Tail(s))

\* str.lower() on the characters the model uses.
LowerChar(ch) ==
    CASE ch = "O" -> "o"
      [] ch = "K" -> "k"
      [] ch = "N" -> "n"
      [] OTHER -> ch

\* A faulty Lower: the letter case is kept.
Lower_Identity(text) == text

Lower(text) == [i \in 1..Len(text) |-> LowerChar(text[i])]

\* term in text, of Python strings.
Contains(term, text) ==
    \E i \in 0..(Len(text) - Len(term)) : SubSeq(text, i + 1, i + Len(term)) = term

\* round(total / n, 2), in hundredths: the nearest hundredth, a tie to the even one.
Round2(total, n) ==
    LET q == (total * 100) \div n
        r == (total * 100) % n
    IN  IF 2 * r < n THEN q
        ELSE IF 2 * r > n THEN q + 1
        ELSE IF q % 2 = 0 THEN q ELSE q + 1

(***************************************************************************)
(* The collection.                                                         *)
(***************************************************************************)
\* A faulty Find: the filter on produto_id is lost.
Find_All(d, pid) == d

\* collection.find({'produto_id': pid}, {'_id': 0}).sort('data', -1): no
\* document has a field 'data', so the sort leaves the documents tied; they
\* are taken in the collection's natural (insertion) order.
Find(d, pid) == SelectSeq(d, LAMBDA r : r.produto_id = pid)

\* A faulty NoReviews: the empty result is never taken.
NoReviews_Never(rs) == FALSE

\* not reviews (src/main.py:147)
NoReviews(rs) == rs = <<>>

\* filtrar_comentarios (src/main.py:41-42)
filtrar_comentarios(rs) == [i \in 1..Len(Take(rs, EXCERPT)) |-> rs[i].avaliacao]

\* The products whose reviews filtrar_comentarios hands to the Summarizer.
Fed(rs) == { rs[i].produto_id : i \in 1..Len(Take(rs, EXCERPT)) }

\* A faulty Media: the mean of the reviews of the excerpt only.
Media_Excerpt(rs) ==
    IF rs = <<>> THEN 0
    ELSE Round2(Sum([i \in 1..Len(Take(rs, EXCERPT)) |-> Halves(rs[i].nota)]),
                2 * Len(Take(rs, EXCERPT)))

\* notas and media_nota (src/main.py:154-155), in hundredths.
Media(rs) ==
    IF rs = <<>> THEN 0
    ELSE Round2(Sum([i \in 1..Len(rs) |-> Halves(rs[i].nota)]), 2 * Len(rs))

(***************************************************************************)
(* cachetools.TTLCache.  An entry is [key, value, expires, from]; from is  *)
(* history: the products whose reviews the value was generated from.       *)
(***************************************************************************)
Entry(k, v, e, f) == [key |-> k, value |-> v, expires |-> e, from |-> f]

Keys(c) == { c[i].key : i \in 1..Len(c) }

\* A faulty Live: an entry is still live at its expiry time.
Live_Inclusive(e, time) == time <= e.expires

\* An entry is live while timer() < expires.
Live(e, time) == time < e.expires

\* TTLCache.expire(time): drops every entry that is no longer live.
Expire(c, time) == SelectSeq(c, LAMBDA e : Live(e, time))

\* The live entry of k, as a set (empty or a singleton).
LiveEntry(c, k, time) == { c[i] : i \in { j \in 1..Len(c) : c[j].key = k /\ Live(c[j], time) } }

\* cache.get(k): the value of k's live entry, else None.
CacheLookup(c, k, time) ==
    IF LiveEntry(c, k, time) = {} THEN None
    ELSE (CHOOSE e \in LiveEntry(c, k, time) : TRUE).value

\* A faulty CacheTouch: a lookup does not count as a use.
CacheTouch_Nothing(c, k, time) == c

\* cache.get(k) marks a live entry as the most recently used.
CacheTouch(c, k, time) ==
    IF LiveEntry(c, k, time) = {} THEN c
    ELSE SelectSeq(c, LAMBDA e : e.key # k) \o SelectSeq(c, LAMBDA e : e.key = k)

\* A faulty EvictUntilRoom: nothing is evicted.
EvictNothing(c) == c

\* Cache.__setitem__ for a new key: popitem() while the cache is full; popitem
\* takes the least recently used entry.
EvictUntilRoom(c) ==
    IF Len(c) < cache_maxsize THEN c
    ELSE SubSeq(c, Len(c) - cache_maxsize + 2, Len(c))

\* cache[k] = v: expire, make room for a new key, store, stamp with timer() + ttl.
CacheSetItem(c, k, v, time, f) ==
    LET c1 == Expire(c, time)
        c2 == IF k \in Keys(c1)
              THEN SelectSeq(c1, LAMBDA e : e.key # k)
              ELSE EvictUntilRoom(c1)
    IN  Append(c2, Entry(k, v, time + ttl, f))

\* not resumo_avaliacao (src/main.py:158): None and "" are falsy.
Falsy(v) == v = None \/ v = ""

(***************************************************************************)
(* Responses.  resp describes the response the last step sent: the thread  *)
(* and the handler, the status and the JSON body; h_* are history of the   *)
(* request: whether the summary came from the cache, the age of the entry  *)
(* it came from, the products the summary was generated from, whether the  *)
(* Summarizer was called, whether the request changed the cache's entries, *)
(* the live keys its cache write evicted and, in sequential runs, the      *)
(* product's previous get_reviews.                                         *)
(***************************************************************************)
Response(st, tx, rs, md, av) ==
    [status |-> st, text |-> tx, resumo_avaliacao |-> rs, media |-> md, avaliacoes |-> av]

\* jsonify({'error': ...}), code
Error(st, tx) == Response(st, tx, None, 0, <<>>)

\* 'Nenhum resumo disponível.' (src/main.py:149)
NENHUM == "Nenhum resumo disponivel."

\* An unhandled exception: Flask answers 500.
Unhandled == Error(500, "Internal Server Error")

DBError == Error(500, "Erro de conexao com o banco de dados")

\* What is remembered of a product's latest get_reviews: that it answered 200
\* (ok), its summary, when it was taken and whether it called the Summarizer.
\* A review saved for the product, or a get_reviews that failed, forgets it.
Call(ok, rs, at, inv) == [ok |-> ok, resumo |-> rs, start |-> at, invoked |-> inv]
NoCall == Call(FALSE, None, 0, FALSE)

\* What is remembered of the use of a product's cache entry: the number of the
\* request that last read or wrote it (seq), and of the one that wrote it.
Use(n, w) == [seq |-> n, wrote |-> w]
NoUse == Use(0, 0)

\* A history that is not kept in a run: no product has a record.
NoHistory == [k \in {} |-> NoUse]

NoObs == [invoked |-> FALSE, changed |-> FALSE, hit |-> FALSE, age |-> 0, from |-> {},
          evicted |-> {}, start |-> 0, first |-> NoCall]

Sent(t, op, pid, r, o) ==
    [thread |-> t, op |-> op, produto_id |-> pid, status |-> r.status, text |-> r.text,
     resumo_avaliacao |-> r.resumo_avaliacao, media |-> r.media, avaliacoes |-> r.avaliacoes,
     h_invoked |-> o.invoked, h_changed |-> o.changed, h_hit |-> o.hit, h_age |-> o.age,
     h_from |-> o.from, h_evicted |-> o.evicted, h_first |-> o.first]

NoResp == Sent("", "", "", Error(0, ""), NoObs)

\* The entries of the cache, whatever their order of use.
Entries(c) == { c[i] : i \in 1..Len(c) }

(***************************************************************************)
(* The state after start-up.                                               *)
(***************************************************************************)
Init ==
    /\ connected \in BOOLEAN
    /\ docs = <<>>
    /\ cache = <<>>
    /\ cache_maxsize = maxsize
    /\ now = 0
    /\ pc = [t \in Threads |-> "idle"]
    /\ produto_id = [t \in Threads |-> ""]
    /\ reviews = [t \in Threads |-> <<>>]
    /\ resumo = [t \in Threads |-> None]
    /\ resp = NoResp
    /\ served = 0
    /\ workers = Threads
    /\ obs = [t \in Threads |-> NoObs]
    /\ last = [k \in ProductIds |-> NoCall]
    /\ used = NoHistory

\* The same, with one thread serving: requests never overlap.
InitSeq ==
    /\ connected \in BOOLEAN
    /\ docs = <<>>
    /\ cache = <<>>
    /\ cache_maxsize = maxsize
    /\ now = 0
    /\ pc = [t \in Threads |-> "idle"]
    /\ produto_id = [t \in Threads |-> ""]
    /\ reviews = [t \in Threads |-> <<>>]
    /\ resumo = [t \in Threads |-> None]
    /\ resp = NoResp
    /\ served = 0
    /\ workers = {"t1"}
    /\ obs = [t \in Threads |-> NoObs]
    /\ last = [k \in ProductIds |-> NoCall]
    /\ used = NoHistory

\* Products for a run with more products than the cache has room for.
LruIds == ProductIds \cup {"C"}

\* A collection that holds one review of each of them when the service starts.
Seeded ==
    << Body("A", "ana", Nota("int", 5), <<"O", "k">>),
       Body("B", "ana", Nota("float", 4), <<"N", "o">>),
       Body("C", "ana", Nota("int", 3), <<"o">>) >>

\* The service starts on that collection, with room for one more summary in
\* the cache, and one thread serving.
InitLru ==
    /\ connected = TRUE
    /\ docs = Seeded
    /\ cache = <<>>
    /\ cache_maxsize = maxsize + 1
    /\ now = 0
    /\ pc = [t \in Threads |-> "idle"]
    /\ produto_id = [t \in Threads |-> ""]
    /\ reviews = [t \in Threads |-> <<>>]
    /\ resumo = [t \in Threads |-> None]
    /\ resp = NoResp
    /\ served = 0
    /\ workers = {"t1"}
    /\ obs = [t \in Threads |-> NoObs]
    /\ last = NoHistory
    /\ used = [k \in LruIds |-> NoUse]

\* One thread serves: the history of calls is kept.
Sequential == Cardinality(workers) = 1

\* History: the latest get_reviews of product k becomes c.
Remember(k, c) ==
    last' = IF Sequential /\ k \in DOMAIN last
            THEN [last EXCEPT ![k] = c]
            ELSE last

\* History: the request being served (its number is served, in a sequential
\* run) has found product k's entry in the cache, or has written it.
Used(k, wrote) ==
    used' = IF Sequential /\ k \in DOMAIN used
            THEN [used EXCEPT ![k] = Use(served, IF wrote THEN served ELSE @.wrote)]
            ELSE used

\* Thread t takes a request.
Take1(t) ==
    /\ t \in workers
    /\ pc[t] = "idle"
    /\ served < MaxRequests
    /\ served' = served + 1

\* The handler of t returns r; the thread is free again.
Finish(t, op, pid, r, o) ==
    /\ pc' = [pc EXCEPT ![t] = "idle"]
    /\ produto_id' = [produto_id EXCEPT ![t] = ""]
    /\ reviews' = [reviews EXCEPT ![t] = <<>>]
    /\ resumo' = [resumo EXCEPT ![t] = None]
    /\ obs' = [obs EXCEPT ![t] = NoObs]
    /\ resp' = Sent(t, op, pid, r, o)

(***************************************************************************)
(* save_review (src/main.py:83-103)                                        *)
(***************************************************************************)
\* 1 <= nota <= 5 raises TypeError when nota is None; it is evaluated only
\* when produto_id and nome_usuario are truthy.
NotaRaises(b) == b.produto_id # "" /\ b.nome_usuario # "" /\ b.nota.kind = "none"

\* produto_id and nome_usuario and 1 <= nota <= 5 and avaliacao
ValidBody(b) ==
    /\ b.produto_id # ""
    /\ b.nome_usuario # ""
    /\ b.nota.kind # "none" /\ 2 <= Halves(b.nota) /\ Halves(b.nota) <= 10
    /\ b.avaliacao # <<>>

\* A faulty SaveReview: a saved review drops the product's cached summary.
SaveReview_Invalidates(t, b) ==
    /\ Take1(t)
    /\ IF ~connected THEN
           /\ Finish(t, "save_review", b.produto_id, DBError, NoObs)
           /\ UNCHANGED <<docs, cache, last>>
       ELSE IF NotaRaises(b) THEN
           /\ Finish(t, "save_review", b.produto_id, Unhandled, NoObs)
           /\ UNCHANGED <<docs, cache, last>>
       ELSE IF ~ValidBody(b) THEN
           /\ Finish(t, "save_review", b.produto_id, Error(400, "Dados invalidos"), NoObs)
           /\ UNCHANGED <<docs, cache, last>>
       ELSE
           /\ docs' = Append(docs, b)
           /\ cache' = SelectSeq(cache, LAMBDA e : e.key # b.produto_id)
           /\ Remember(b.produto_id, NoCall)
           /\ Finish(t, "save_review", b.produto_id,
                     Error(201, "Avaliacao salva com sucesso"), NoObs)
    /\ UNCHANGED <<connected, cache_maxsize, now, workers, used>>

SaveReview(t, b) ==
    /\ Take1(t)
    /\ IF ~connected THEN
           /\ Finish(t, "save_review", b.produto_id, DBError, NoObs)
           /\ UNCHANGED <<docs, last>>
       ELSE IF NotaRaises(b) THEN
           /\ Finish(t, "save_review", b.produto_id, Unhandled, NoObs)
           /\ UNCHANGED <<docs, last>>
       ELSE IF ~ValidBody(b) THEN
           /\ Finish(t, "save_review", b.produto_id, Error(400, "Dados invalidos"), NoObs)
           /\ UNCHANGED <<docs, last>>
       ELSE
           /\ docs' = Append(docs, b)
           /\ Remember(b.produto_id, NoCall)
           /\ Finish(t, "save_review", b.produto_id,
                     Error(201, "Avaliacao salva com sucesso"), NoObs)
    /\ UNCHANGED <<connected, cache, cache_maxsize, now, workers, used>>

(***************************************************************************)
(* get_reviews (src/main.py:137-167)                                       *)
(***************************************************************************)
\* Lines 137-155: the checks, the fetch and the empty result.
GetReviews(t, pid) ==
    /\ Take1(t)
    /\ IF ~connected THEN
           Finish(t, "get_reviews", pid, DBError, NoObs)
       ELSE IF pid = "" THEN
           Finish(t, "get_reviews", pid, Error(400, "ID do produto e obrigatorio"), NoObs)
       ELSE IF NoReviews(Find(docs, pid)) THEN
           Finish(t, "get_reviews", pid, Response(200, "", NENHUM, 0, <<>>), NoObs)
       ELSE
           /\ pc' = [pc EXCEPT ![t] = "cache_get"]
           /\ produto_id' = [produto_id EXCEPT ![t] = pid]
           /\ reviews' = [reviews EXCEPT ![t] = Find(docs, pid)]
           /\ resp' = NoResp
           /\ obs' = [obs EXCEPT ![t].start = IF Sequential THEN now ELSE 0,
                                  ![t].first = IF pid \in DOMAIN last THEN last[pid]
                                               ELSE NoCall]
           /\ UNCHANGED resumo
    /\ UNCHANGED <<connected, docs, cache, cache_maxsize, now, workers, last, used>>

\* Lines 157-159, and 163-167 on a hit: resumo_avaliacao = cache.get(produto_id).
CacheGet(t) ==
    /\ pc[t] = "cache_get"
    /\ LET v == CacheLookup(cache, produto_id[t], now)
           hits == LiveEntry(cache, produto_id[t], now)
           c2 == CacheTouch(cache, produto_id[t], now)
           o == [obs[t] EXCEPT !.changed = @ \/ Entries(c2) # Entries(cache)]
       IN  /\ cache' = c2
           /\ IF Falsy(v) THEN
                  /\ pc' = [pc EXCEPT ![t] = "gerar_resumo"]
                  /\ obs' = [obs EXCEPT ![t] = [o EXCEPT !.invoked = TRUE]]
                  /\ resp' = NoResp
                  /\ IF hits # {} THEN Used(produto_id[t], FALSE) ELSE UNCHANGED used
                  /\ UNCHANGED <<produto_id, reviews, resumo, last>>
              ELSE
                  LET e == CHOOSE x \in hits : TRUE
                  IN  /\ Finish(t, "get_reviews", produto_id[t],
                                Response(200, "", v, Media(reviews[t]), reviews[t]),
                                [o EXCEPT !.hit = TRUE, !.age = now - (e.expires - ttl),
                                          !.from = e.from])
                      /\ Remember(produto_id[t], Call(TRUE, v, obs[t].start, FALSE))
                      /\ Used(produto_id[t], FALSE)
    /\ UNCHANGED <<connected, docs, cache_maxsize, now, served, workers>>

\* Line 160: the Summarizer answers s.
GerarResumoOk(t, s) ==
    /\ pc[t] = "gerar_resumo"
    /\ resumo' = [resumo EXCEPT ![t] = s]
    /\ pc' = [pc EXCEPT ![t] = "cache_set"]
    /\ resp' = NoResp
    /\ UNCHANGED <<connected, docs, cache, cache_maxsize, now, produto_id, reviews, served,
                   workers, obs, last, used>>

\* A faulty GerarResumoFail: the failure is cached as an empty summary.
GerarResumoFail_Cached(t) ==
    /\ pc[t] = "gerar_resumo"
    /\ cache' = CacheSetItem(cache, produto_id[t], "", now, Fed(reviews[t]))
    /\ Finish(t, "get_reviews", produto_id[t], Unhandled, [obs[t] EXCEPT !.changed = TRUE])
    /\ Remember(produto_id[t], NoCall)
    /\ UNCHANGED <<connected, docs, cache_maxsize, now, served, workers, used>>

\* A faulty GerarResumoFail: the failure empties the cache.
GerarResumoFail_Clears(t) ==
    /\ pc[t] = "gerar_resumo"
    /\ cache' = <<>>
    /\ Finish(t, "get_reviews", produto_id[t], Unhandled, obs[t])
    /\ Remember(produto_id[t], NoCall)
    /\ UNCHANGED <<connected, docs, cache_maxsize, now, served, workers, used>>

\* Line 160: the Summarizer call raises; the handler does not catch it.
GerarResumoFail(t) ==
    /\ pc[t] = "gerar_resumo"
    /\ Finish(t, "get_reviews", produto_id[t], Unhandled, obs[t])
    /\ Remember(produto_id[t], NoCall)
    /\ UNCHANGED <<connected, docs, cache, cache_maxsize, now, served, workers, used>>

\* A faulty CacheSet: the response lists the reviews the collection holds
\* now, with the average of those fetched at line 145.
CacheSet_Refetch(t) ==
    /\ pc[t] = "cache_set"
    /\ LET c2 == CacheSetItem(cache, produto_id[t], resumo[t], now, Fed(reviews[t]))
       IN  /\ cache' = c2
           /\ Finish(t, "get_reviews", produto_id[t],
                     Response(200, "", resumo[t], Media(reviews[t]),
                              Find(docs, produto_id[t])),
                     [obs[t] EXCEPT !.changed = @ \/ Entries(c2) # Entries(cache),
                                    !.from = Fed(reviews[t]),
                                    !.evicted = Keys(Expire(cache, now)) \ Keys(c2)])
           /\ Remember(produto_id[t], Call(TRUE, resumo[t], obs[t].start, TRUE))
           /\ Used(produto_id[t], TRUE)
    /\ UNCHANGED <<connected, docs, cache_maxsize, now, served, workers>>

\* Lines 161-167: cache[produto_id] = resumo_avaliacao, and the response.
CacheSet(t) ==
    /\ pc[t] = "cache_set"
    /\ LET c2 == CacheSetItem(cache, produto_id[t], resumo[t], now, Fed(reviews[t]))
       IN  /\ cache' = c2
           /\ Finish(t, "get_reviews", produto_id[t],
                     Response(200, "", resumo[t], Media(reviews[t]), reviews[t]),
                     [obs[t] EXCEPT !.changed = @ \/ Entries(c2) # Entries(cache),
                                    !.from = Fed(reviews[t]),
                                    !.evicted = Keys(Expire(cache, now)) \ Keys(c2)])
           /\ Remember(produto_id[t], Call(TRUE, resumo[t], obs[t].start, TRUE))
           /\ Used(produto_id[t], TRUE)
    /\ UNCHANGED <<connected, docs, cache_maxsize, now, served, workers>>

(***************************************************************************)
(* search_reviews (src/main.py:203-220)                                    *)
(***************************************************************************)
\* A faulty SearchReviews: the arguments are not checked.
SearchReviews_Unchecked(t, pid, palavra) ==
    /\ Take1(t)
    /\ IF ~connected THEN
           Finish(t, "search_reviews", pid, DBError, NoObs)
       ELSE
           Finish(t, "search_reviews", pid,
                  Response(200, "", None, 0,
                      SelectSeq(Find(docs, pid),
                                LAMBDA r : Contains(Lower(palavra), Lower(r.avaliacao)))),
                  NoObs)
    /\ UNCHANGED <<connected, docs, cache, cache_maxsize, now, workers, last, used>>

SearchReviews(t, pid, palavra) ==
    /\ Take1(t)
    /\ IF ~connected THEN
           Finish(t, "search_reviews", pid, DBError, NoObs)
       ELSE IF pid = "" \/ palavra = <<>> THEN
           Finish(t, "search_reviews", pid,
                  Error(400, "ID do produto e palavra de busca sao obrigatorios"), NoObs)
       ELSE
           Finish(t, "search_reviews", pid,
                  Response(200, "", None, 0,
                      SelectSeq(Find(docs, pid),
                                LAMBDA r : Contains(Lower(palavra), Lower(r.avaliacao)))),
                  NoObs)
    /\ UNCHANGED <<connected, docs, cache, cache_maxsize, now, workers, last, used>>

\* The cache's timer (time.monotonic) advances.
Tick ==
    /\ now < MaxTime
    /\ now' = now + 1
    /\ resp' = NoResp
    /\ UNCHANGED <<connected, docs, cache, cache_maxsize, pc, produto_id, reviews, resumo,
                   served, workers, obs, last, used>>

Next ==
    \/ \E t \in Threads :
          \/ \E b \in SaveBodies : SaveReview(t, b)
          \/ \E pid \in ArgIds : GetReviews(t, pid)
          \/ CacheGet(t)
          \/ \E s \in Summaries : GerarResumoOk(t, s)
          \/ GerarResumoFail(t)
          \/ CacheSet(t)
          \/ \E pid \in ArgIds : \E palavra \in Palavras : SearchReviews(t, pid, palavra)
    \/ Tick

Spec == Init /\ [][Next]_vars

\* Requests served one after the other.
SeqSpec == InitSeq /\ [][Next]_vars

\* get_reviews requests served one after the other, for three products, by a
\* cache with room for fewer.  The other handlers leave the cache alone.
NextLru ==
    \/ \E t \in Threads :
          \/ \E pid \in LruIds : GetReviews(t, pid)
          \/ CacheGet(t)
          \/ \E s \in Summaries : GerarResumoOk(t, s)
          \/ GerarResumoFail(t)
          \/ CacheSet(t)
    \/ Tick

LruSpec == InitLru /\ [][NextLru]_vars

\* A handler that can take its next step takes it.  Nothing is assumed of the
\* Summarizer: the code sets no timeout on the call (src/main.py:21).
FairSpec ==
    Spec /\ \A t \in Threads : WF_vars(CacheGet(t)) /\ WF_vars(CacheSet(t))

(***************************************************************************)
(* The claims.                                                             *)
(***************************************************************************)
\* The threads whose Summarizer call for product k is outstanding.
InFlight(k) == { t \in Threads : pc[t] = "gerar_resumo" /\ produto_id[t] = k }

\* C1: single-flight: for any product, at most one Summarizer invocation is
\* in flight at any time; later callers join it instead of starting their own.
C1_SingleFlight == \A k \in ProductIds : Cardinality(InFlight(k)) <= 1

\* C2: get_reviews calls that run concurrently for the same product while it
\* has no cache entry return the same summary: two calls that both hold the
\* summary they are about to return hold the same one.
C2_SharedResult ==
    \A t, u \in Threads :
        ( /\ pc[t] = "cache_set" /\ pc[u] = "cache_set"
          /\ produto_id[t] = produto_id[u]
          /\ produto_id[t] \notin Keys(cache) )
        => resumo[t] = resumo[u]

\* C3: of two successive get_reviews of a product, the second ending within
\* TTL of the start of the first, with no review saved in between, at most
\* one calls the Summarizer and the second returns the summary of the first.
C3_CacheHit ==
    ( /\ resp.op = "get_reviews" /\ resp.status = 200
      /\ resp.h_first.ok
      /\ now - resp.h_first.start < ttl )
    => ( /\ ~(resp.h_invoked /\ resp.h_first.invoked)
         /\ resp.resumo_avaliacao = resp.h_first.resumo )

\* The last step was a get_reviews whose Summarizer call failed.
SummarizerFailed(r) == r.op = "get_reviews" /\ r.status = 500 /\ r.h_invoked

\* C4: failures are never cached: a get_reviews whose Summarizer call fails
\* answers with the error, has changed no entry of the cache, and its failing
\* step leaves the cache as it is.
C4_FailureNotCached ==
    [][ SummarizerFailed(resp')
        => ( /\ cache' = cache
             /\ ~resp'.h_changed
             /\ resp'.resumo_avaliacao = None ) ]_vars

\* C4 happens: a Summarizer failure is answered while the cache holds an entry.
C4_Witness == SummarizerFailed(resp) /\ cache # <<>>

\* When an entry was written: its stamp is the time of the write plus ttl.
InsertedAt(e) == e.expires - ttl

\* The entry of product k, as a set.
EntryOf(c, k) == { e \in Entries(c) : e.key = k }

\* C5: failure isolation: the failure of the Summarizer for product A changes
\* the cache entry of no other product, nor the collection, nor the request of
\* any other thread, which goes on as it would have.
C5_FailureIsolation ==
    [][ SummarizerFailed(resp')
        => ( /\ \A k \in ProductIds \ {resp'.produto_id} : EntryOf(cache', k) = EntryOf(cache, k)
             /\ docs' = docs /\ connected' = connected
             /\ \A u \in Threads \ {resp'.thread} :
                    /\ pc'[u] = pc[u] /\ produto_id'[u] = produto_id[u]
                    /\ reviews'[u] = reviews[u] /\ resumo'[u] = resumo[u] ) ]_vars

\* C5 happens: product A's Summarizer call fails while another product has a
\* live entry in the cache.
C5_Witness ==
    /\ SummarizerFailed(resp)
    /\ \E e \in Entries(cache) : e.key # resp.produto_id /\ now - InsertedAt(e) < ttl

\* C6: every get_reviews eventually completes, even if the Summarizer call it
\* waits on never answers.
C6_Completes == \A t \in Threads : (pc[t] = "gerar_resumo") ~> (pc[t] = "idle")

\* Thread t's step is the cache lookup of its get_reviews.
LooksUp(t) == pc[t] = "cache_get" /\ pc'[t] # "cache_get"

\* C7: an entry is live exactly while now - inserted_at < TTL: a lookup
\* answers from the cache only with the value of an entry younger than TTL,
\* answers from it whenever such an entry holds a summary, and on an entry of
\* age TTL or more goes on to the Summarizer without an error.
C7_Expiration ==
    [][ \A t \in Threads : LooksUp(t) =>
          LET es == EntryOf(cache, produto_id[t])
              young == { e \in es : now - InsertedAt(e) < ttl }
          IN  /\ resp'.h_hit <=> \E e \in young : ~Falsy(e.value)
              /\ resp'.h_hit => /\ resp'.status = 200
                                /\ \E e \in young : resp'.resumo_avaliacao = e.value
                                /\ resp'.h_age < ttl
              /\ young = {} => pc'[t] = "gerar_resumo" /\ resp' = NoResp ]_vars

\* C7 happens: a get_reviews has found its product's entry expired, still in
\* the cache, and waits for the Summarizer.
C7_Witness ==
    \E t \in Threads :
        /\ pc[t] = "gerar_resumo"
        /\ \E e \in EntryOf(cache, produto_id[t]) : now - InsertedAt(e) >= ttl

\* C8: key integrity: the entry under key K was generated from reviews of
\* product K only, a get_reviews works on the reviews of its own product only,
\* and the summary it returns was generated for that product.
C8_KeyIntegrity ==
    /\ \A e \in Entries(cache) : e.from = {e.key}
    /\ \A t \in Threads : \A i \in 1..Len(reviews[t]) : reviews[t][i].produto_id = produto_id[t]
    /\ (resp.op = "get_reviews" /\ resp.status = 200 /\ resp.avaliacoes # <<>>)
          => resp.h_from = {resp.produto_id}

\* C8 happens: a summary is served from the cache while the collection holds
\* reviews of another product too.
C8_Witness ==
    /\ resp.op = "get_reviews" /\ resp.h_hit
    /\ \E i \in 1..Len(docs) : docs[i].produto_id # resp.produto_id

\* C9: capacity: the cache never holds more than maxsize distinct keys.
C9_Capacity == Cardinality(Keys(cache)) <= maxsize /\ Len(cache) <= maxsize

\* C9 happens: a cache write has evicted a live entry from a full cache.
C9_Witness == resp.h_evicted # {} /\ Len(cache) = maxsize

\* C10: empty-product bypass: a get_reviews with a non-empty produto_id that
\* has no reviews answers 200 with the fixed text, average 0 and no reviews in
\* one step that leaves the cache as it is and calls no Summarizer; so no
\* request goes on to the cache with no reviews, and no product without
\* reviews has a cache entry.
C10_EmptyBypass ==
    [][ /\ \A t \in Threads : \A pid \in ProductIds :
              (GetReviews(t, pid) /\ connected /\ Find(docs, pid) = <<>>)
              => ( /\ resp'.op = "get_reviews" /\ resp'.thread = t /\ resp'.status = 200
                   /\ resp'.resumo_avaliacao = NENHUM /\ resp'.media = 0
                   /\ resp'.avaliacoes = <<>>
                   /\ ~resp'.h_invoked /\ ~resp'.h_hit /\ ~resp'.h_changed
                   /\ cache' = cache /\ pc'[t] = "idle" )
        /\ \A t \in Threads : pc'[t] # "idle" => reviews'[t] # <<>>
        /\ \A k \in Keys(cache') : Find(docs', k) # <<>> ]_vars

\* C10 happens: a product without reviews gets the fixed answer while the
\* cache holds another product's summary.
C10_Witness ==
    /\ resp.op = "get_reviews" /\ resp.status = 200 /\ resp.produto_id # ""
    /\ resp.resumo_avaliacao = NENHUM /\ resp.avaliacoes = <<>>
    /\ cache # <<>>

Abs(x) == IF x < 0 THEN 0 - x ELSE x

\* m, in hundredths, is the mean of the ratings of the reviews rs rounded to
\* two decimals: no hundredth is nearer to the mean.  The ratings add up to
\* Sum(...) halves, so the mean is 50 * Sum(...) / Len(rs) hundredths.
RoundedMean(m, rs) ==
    /\ rs # <<>>
    /\ 2 * Abs(m * Len(rs) - 50 * Sum([i \in 1..Len(rs) |-> Halves(rs[i].nota)])) <= Len(rs)

\* The reviews of product pid that the collection holds.
Stored(pid) == SelectSeq(docs, LAMBDA r : r.produto_id = pid)

\* Thread t's step sends the 200 answer of a get_reviews that had reviews.
Answers(t) ==
    /\ pc[t] \in {"cache_get", "cache_set"} /\ pc'[t] = "idle"
    /\ resp'.status = 200

\* C11: average correctness: a get_reviews works on all the reviews of its
\* product that the collection holds when it reads it, and the average it
\* returns, with a summary from the cache or from the Summarizer, is the mean
\* of their ratings rounded to two decimals, computed in that request; a
\* product without reviews gets the average 0.
C11_Average ==
    [][ /\ \A t \in Threads : \A pid \in ProductIds :
              (GetReviews(t, pid) /\ connected) =>
                  IF Stored(pid) = <<>>
                  THEN resp'.status = 200 /\ resp'.media = 0
                  ELSE pc'[t] = "cache_get" /\ reviews'[t] = Stored(pid)
        /\ \A t \in Threads :
              Answers(t) => /\ RoundedMean(resp'.media, reviews[t])
                            /\ resp'.h_hit \/ resp'.h_invoked ]_vars

\* C11 happens: a summary is served from the cache with the average of the two
\* ratings 5 and 2 that the product has.
C11_Witness ==
    /\ resp.op = "get_reviews" /\ resp.status = 200 /\ resp.h_hit
    /\ Len(resp.avaliacoes) = 2 /\ resp.media = 350

\* A review as the service documents it: non-empty produto_id, nome_usuario
\* and avaliacao, and an integer nota from 1 to 5.
WellFormed(r) ==
    /\ r.produto_id # "" /\ r.nome_usuario # "" /\ r.avaliacao # <<>>
    /\ r.nota.kind = "int" /\ r.nota.v \in 1..5

\* C12: stored-review validity: every review in the collection is well
\* formed, and a save_review that the reachable collection turns down is
\* turned down as invalid data (400).
C12_StoredValid ==
    /\ \A i \in 1..Len(docs) : WellFormed(docs[i])
    /\ (resp.op = "save_review" /\ connected) => resp.status \in {201, 400}

Reverse(s) == [i \in 1..Len(s) |-> s[Len(s) + 1 - i]]

\* The elements of a appear in b, in the order they have in a.
RECURSIVE IsSubseq(_, _)
IsSubseq(a, b) ==
    IF a = <<>> THEN TRUE
    ELSE IF b = <<>> THEN FALSE
    ELSE IF Head(a) = Head(b) THEN IsSubseq(Tail(a), Tail(b))
    ELSE IsSubseq(a, Tail(b))

\* C13: newest-first ordering: the reviews that get_reviews and search_reviews
\* return are in the order of their insertion, the latest first: they appear
\* in that order in the product's stored reviews read backwards.
C13_NewestFirst ==
    (resp.op \in {"get_reviews", "search_reviews"} /\ resp.status = 200)
    => IsSubseq(resp.avaliacoes, Reverse(Stored(resp.produto_id)))

\* The texts of the reviews rs.
Texts(rs) == [i \in 1..Len(rs) |-> rs[i].avaliacao]

\* C14: excerpt cap: what a get_reviews hands to the Summarizer is the texts
\* of the EXCERPT most recently inserted reviews of its product (of all of
\* them when there are fewer), the latest first, and never more than EXCERPT
\* texts.  Requests are served one at a time, so the collection is the one
\* the request has read.
C14_Excerpt ==
    \A t \in Threads :
        pc[t] = "gerar_resumo" =>
            /\ Len(filtrar_comentarios(reviews[t])) <= EXCERPT
            /\ filtrar_comentarios(reviews[t])
                   = Texts(Take(Reverse(Stored(produto_id[t])), EXCERPT))

\* The characters a and b are the same letter, whatever their case.
SameLetter(a, b) == a = b \/ {a, b} \in { {"O", "o"}, {"K", "k"}, {"N", "n"} }

\* term occurs in text, letter case aside.
Occurs(term, text) ==
    \E i \in 0..(Len(text) - Len(term)) :
        \A j \in 1..Len(term) : SameLetter(text[i + j], term[j])

\* Thread t's step serves the search_reviews of product pid for palavra.
Searches(t, pid, palavra) ==
    /\ resp'.op = "search_reviews" /\ resp'.thread = t /\ resp'.produto_id = pid
    /\ SearchReviews(t, pid, palavra)

\* C15: search correctness: a search_reviews with a product and a term
\* answers 200 with exactly the stored reviews of the product whose text has
\* the term in it, letter case aside, in the order the collection gives them.
C15_Search ==
    [][ \A t \in Threads : \A pid \in ProductIds : \A palavra \in Palavras \ {<<>>} :
          (Searches(t, pid, palavra) /\ connected) =>
              /\ resp'.status = 200
              /\ resp'.avaliacoes
                     = SelectSeq(Stored(pid), LAMBDA r : Occurs(palavra, r.avaliacao)) ]_vars

\* C15 happens: a search returns some of the product's reviews and not all,
\* none of which has a search term in it in the term's own letter case.
C15_Witness ==
    /\ resp.op = "search_reviews" /\ resp.status = 200
    /\ resp.avaliacoes # <<>>
    /\ Len(resp.avaliacoes) < Len(Stored(resp.produto_id))
    /\ \A i \in 1..Len(resp.avaliacoes) : \A p \in Palavras \ {<<>>} :
           ~Contains(p, resp.avaliacoes[i].avaliacao)

\* Thread t's step serves a get_reviews without produto_id, or a
\* search_reviews without produto_id or without palavra.
InvalidCall(t) ==
    \/ resp'.op = "get_reviews" /\ resp'.produto_id = "" /\ GetReviews(t, "")
    \/ \E pid \in ArgIds : \E palavra \in Palavras :
          (pid = "" \/ palavra = <<>>) /\ Searches(t, pid, palavra)

\* The step of thread t is its whole request, which has read no review,
\* called no Summarizer and changed neither the collection nor the cache.
NoSideEffects(t) ==
    /\ pc'[t] = "idle" /\ resp'.thread = t
    /\ docs' = docs /\ cache' = cache
    /\ reviews' = reviews /\ resumo' = resumo
    /\ resp'.avaliacoes = <<>> /\ resp'.resumo_avaliacao = None
    /\ ~resp'.h_invoked /\ ~resp'.h_hit /\ ~resp'.h_changed

\* The 400 answers of get_reviews and search_reviews.
InvalidArgument ==
    { Error(400, "ID do produto e obrigatorio"),
      Error(400, "ID do produto e palavra de busca sao obrigatorios") }

\* The answer that resp holds.
Answer(r) == Response(r.status, r.text, r.resumo_avaliacao, r.media, r.avaliacoes)

\* C16, as claimed: a get_reviews without produto_id and a search_reviews
\* without produto_id or palavra fail with the invalid-argument error and
\* have no side effects.
C16_Rejects ==
    [][ \A t \in Threads :
          InvalidCall(t) => Answer(resp') \in InvalidArgument /\ NoSideEffects(t) ]_vars

\* C16, amended: they have no side effects, and fail with the
\* invalid-argument error when the collection was connected at start-up and
\* with the connection error when it was not.
C16_RejectsWhenConnected ==
    [][ \A t \in Threads :
          InvalidCall(t) =>
              /\ NoSideEffects(t)
              /\ IF connected THEN Answer(resp') \in InvalidArgument
                              ELSE Answer(resp') = DBError ]_vars

\* C16 happens: a request without its argument is answered 400 while the
\* collection holds reviews and the cache a summary.
C16_Witness ==
    /\ resp.op \in {"get_reviews", "search_reviews"} /\ Answer(resp) \in InvalidArgument
    /\ docs # <<>> /\ cache # <<>>

\* Thread t's step serves a save_review or a search_reviews.
SavesOrSearches(t) ==
    \/ /\ resp'.op = "save_review" /\ resp'.thread = t
       /\ \E b \in SaveBodies : resp'.produto_id = b.produto_id /\ SaveReview(t, b)
    \/ \E pid \in ArgIds : \E palavra \in Palavras : Searches(t, pid, palavra)

\* C17: cache frame: a save_review or a search_reviews, whatever its answer,
\* leaves the cache and its timer as they are and takes nothing from the
\* cache, so that a lookup of any product right after it finds what a lookup
\* right before it would have found.
C17_CacheFrame ==
    [][ \A t \in Threads :
          SavesOrSearches(t) =>
              /\ cache' = cache /\ cache_maxsize' = cache_maxsize /\ now' = now
              /\ \A k \in ProductIds :
                     CacheLookup(cache', k, now') = CacheLookup(cache, k, now)
              /\ ~resp'.h_hit /\ ~resp'.h_changed /\ resp'.resumo_avaliacao = None ]_vars

\* C17 happens: a review has been saved for a product whose summary is live
\* in the cache.
C17_Witness ==
    /\ resp.op = "save_review" /\ resp.status = 201
    /\ ~Falsy(CacheLookup(cache, resp.produto_id, now))

\* C18: the hit path makes no external call: a get_reviews that looks up the
\* cache while its product has a live entry answers in that step with the
\* entry's value, whatever the value, and calls no Summarizer.
C18_HitNoCall ==
    [][ \A t \in Threads :
          (LooksUp(t) /\ LiveEntry(cache, produto_id[t], now) # {}) =>
              /\ pc'[t] = "idle" /\ resp'.status = 200 /\ resp'.h_hit
              /\ ~resp'.h_invoked
              /\ \E e \in LiveEntry(cache, produto_id[t], now) :
                     resp'.resumo_avaliacao = e.value ]_vars

\* C19: LRU eviction: when a get_reviews writes the summary of a product that
\* has no live entry into a cache that holds cache_maxsize live entries, one
\* entry goes, and it is the one whose latest use, a lookup that found it or
\* its write, is the least recent.
C19_LRU ==
    [][ \A t \in Threads :
          (pc[t] = "cache_set" /\ pc'[t] = "idle") =>
              LET live == Keys(Expire(cache, now))
              IN  (produto_id[t] \notin live /\ Cardinality(live) = cache_maxsize) =>
                      \E v \in live :
                          /\ resp'.h_evicted = {v}
                          /\ Keys(cache') = (live \ {v}) \cup {produto_id[t]}
                          /\ \A j \in live : used[v].seq <= used[j].seq ]_vars

\* C19 happens: a write has evicted an entry and left in the cache one that
\* was written before the evicted one and read after it.
C19_Witness ==
    \E v \in resp.h_evicted : \E j \in Keys(cache) \ {resp.produto_id} :
        /\ used[j].wrote < used[v].wrote
        /\ used[j].seq > used[v].seq

\* C20: response snapshot consistency: in a get_reviews answer that lists
\* reviews, the average is the rounded mean of the ratings of the reviews
\* listed, whatever other requests have saved since they were fetched.
C20_Snapshot ==
    (resp.op = "get_reviews" /\ resp.status = 200 /\ resp.avaliacoes # <<>>)
    => RoundedMean(resp.media, resp.avaliacoes)

\* C20 happens: a get_reviews answers after another request has saved a
\* review of the same product, so that the collection holds a review the
\* answer does not list.
C20_Witness ==
    /\ resp.op = "get_reviews" /\ resp.status = 200 /\ resp.avaliacoes # <<>>
    /\ Len(Stored(resp.produto_id)) > Len(resp.avaliacoes)
    /\ ~RoundedMean(resp.media, Stored(resp.produto_id))

=============================================================================
